---- MODULE Spec2Model ----
(***************************************************************************)
(* A model of src/markdown.rs: the markdown block builder                  *)
(* (process_events and the functions it calls, over one shared cursor on   *)
(* the pulldown_cmark event stream) and the MarkdowWidget callbacks        *)
(* (layout, paint, on_pointer_event) over the document it builds.          *)
(*                                                                         *)
(* Texts are sequences of one-character strings, lengths are in bytes of   *)
(* ASCII text, f32/f64 quantities are integers.  An Option is a sequence   *)
(* of length 0 (None) or 1 (Some).                                         *)
(***************************************************************************)
EXTENDS Integers, Sequences, FiniteSets, TLC

VARIABLES
    events,           \* the Parser: the whole event sequence it will yield
    pos,              \* the Parser's cursor: index of the next event
    stack,            \* call stack of the builder, innermost call last
    diag,             \* diagnostics written by warn!/error!, oldest first
    pc,               \* "parsing", "ready" (widget constructed), "aborted"
    panic,            \* the place that panicked, "" while none has
    markdown_layout,  \* MarkdowWidget.markdown_layout
    dirty,            \* MarkdowWidget.dirty
    max_advance,      \* MarkdowWidget.max_advance
    scroll,           \* MarkdowWidget.scroll, [x, y]
    size,             \* the host's ctx.size(): what layout last returned
    measured,         \* whether the last layout callback ran the measurement pass
    scene,            \* the draw calls of the last paint, in order
    files             \* the paths image::open can open and decode

vars == <<events, pos, stack, diag, pc, panic, markdown_layout, dirty,
          max_advance, scroll, size, measured, scene, files>>

----------------------------------------------------------------------------
(* Bounds of the model.                                                    *)

\* a document is at most MaxBlocks top-level constructs long
MaxBlocks == 2
\* the host offers the widths MaxWidth - 1 and MaxWidth
MaxWidth == 6
\* the height of the viewport the host offers
ViewHeight == 20
\* a document is at most MaxEvents events long
MaxEvents == 20
\* the mouse wheel turns by MaxDelta, up or down
MaxDelta == 4

None == <<>>
Some(x) == <<x>>

Max(a, b) == IF a > b THEN a ELSE b
Min(a, b) == IF a < b THEN a ELSE b

----------------------------------------------------------------------------
(* pulldown_cmark events.  ev is the Event variant, tag the Tag or TagEnd  *)
(* variant of a Start or End, text the string an event carries (for an     *)
(* image: destination and title), num its number (heading level, list      *)
(* start).                                                                 *)

Ev(ev, tag, text, num) == [ev |-> ev, tag |-> tag, text |-> text, num |-> num]

Start(tag)         == Ev("Start", tag, <<>>, None)
End(tag)           == Ev("End", tag, <<>>, None)
Text(s)            == Ev("Text", "", s, None)
Code(s)            == Ev("Code", "", s, None)
Html(s)            == Ev("Html", "", s, None)
InlineHtml(s)      == Ev("InlineHtml", "", s, None)
InlineMath(s)      == Ev("InlineMath", "", s, None)
DisplayMath(s)     == Ev("DisplayMath", "", s, None)
FootnoteReference(s) == Ev("FootnoteReference", "", s, None)
TaskListMarker     == Ev("TaskListMarker", "", <<>>, None)
HardBreak          == Ev("HardBreak", "", <<>>, None)
SoftBreak          == Ev("SoftBreak", "", <<>>, None)
Rule               == Ev("Rule", "", <<>>, None)
StartHeading(level) == Ev("Start", "Heading", <<>>, Some(level))
EndHeading(level)  == Ev("End", "Heading", <<>>, Some(level))
StartList(first)   == Ev("Start", "List", <<>>, first)
EndList(ordered)   == Ev("End", "List", <<>>, ordered)
StartImage(dest_url, title) == Ev("Start", "Image", <<dest_url, title>>, None)

\* a slip in the comparison: the variant compared, not the tag
EventEqVariant(a, b) == a.ev = b.ev

\* Event's PartialEq, as used on the terminator of a scope
EventEq(a, b) == a.ev = b.ev /\ a.tag = b.tag /\ a.text = b.text /\ a.num = b.num

(* Well-nested event sequences, as the Parser yields them.                 *)
MdParagraph(inl)     == <<Start("Paragraph")>> \o inl \o <<End("Paragraph")>>
MdStrong(inl)        == <<Start("Strong")>> \o inl \o <<End("Strong")>>
MdEmphasis(inl)      == <<Start("Emphasis")>> \o inl \o <<End("Emphasis")>>
MdStrikethrough(inl) == <<Start("Strikethrough")>> \o inl \o <<End("Strikethrough")>>
MdLink(inl)          == <<Start("Link")>> \o inl \o <<End("Link")>>
MdHeading(level, inl) == <<StartHeading(level)>> \o inl \o <<EndHeading(level)>>
MdItem(blocks)       == <<Start("Item")>> \o blocks \o <<End("Item")>>
MdList(first, items) == <<StartList(first)>> \o items \o <<EndList(<<>>)>>
MdBlockQuote(blocks) == <<Start("BlockQuote")>> \o blocks \o <<End("BlockQuote")>>
MdImage(dest_url, title, alt) ==
    <<StartImage(dest_url, title), Text(alt), End("Image")>>
MdCodeBlock(s)       == <<Start("CodeBlock"), Text(s), End("CodeBlock")>>
MdHtmlBlock(s)       == <<Start("HtmlBlock"), Html(s), End("HtmlBlock")>>
MdTable(cell) ==
    <<Start("Table"), Start("TableHead"), Start("TableCell"), Text(cell),
      End("TableCell"), End("TableHead"), End("Table")>>
MdDefinitionList(title, definition) ==
    <<Start("DefinitionList"), Start("DefinitionListTitle"), Text(title),
      End("DefinitionListTitle"), Start("DefinitionListDefinition"),
      Text(definition), End("DefinitionListDefinition"), End("DefinitionList")>>
MdFootnoteDefinition(s) ==
    <<Start("FootnoteDefinition")>> \o MdParagraph(<<Text(s)>>)
        \o <<End("FootnoteDefinition")>>
MdMetadataBlock(s)   == <<Start("MetadataBlock"), Text(s), End("MetadataBlock")>>

----------------------------------------------------------------------------
(* The shaping engine (parley), as the code uses it: a Layout remembers    *)
(* the text it was built from, the width its lines were broken at and the  *)
(* height of one line.  Every byte advances by Advance; a line holds as    *)
(* many bytes as fit the width (at least one), "\n" ends a line.           *)

\* theme.text_size
TextSize == 8
\* the advance of one glyph
Advance == 1

\* Layout::new(): no line, height 0
LayoutNew == [len |-> 0, max_width |-> None, line_height |-> 0, lines |-> 0,
              full_width |-> 0]

RECURSIVE CountLines(_, _, _)
\* the lines `text` breaks into when `room` glyphs fit a line and `col` are
\* already on the current one
CountLines(text, room, col) ==
    IF text = <<>> THEN 1
    ELSE IF Head(text) = "\n" THEN 1 + CountLines(Tail(text), room, 0)
    ELSE IF col >= room THEN 1 + CountLines(Tail(text), room, 1)
    ELSE CountLines(Tail(text), room, col + 1)

RECURSIVE WidestLine(_, _, _)
WidestLine(text, col, best) ==
    IF text = <<>> THEN Max(col, best)
    ELSE IF Head(text) = "\n" THEN WidestLine(Tail(text), 0, Max(col, best))
    ELSE WidestLine(Tail(text), col + 1, best)

\* builder.build(text) followed by break_all_lines(max_width)
break_all_lines(text, max_width, line_height) ==
    LET room == IF max_width = None THEN Len(text) + 1
                ELSE Max(1, max_width[1] \div Advance)
    IN [len |-> Len(text), max_width |-> max_width, line_height |-> line_height,
        lines |-> CountLines(text, room, 0),
        full_width |-> Min(room, WidestLine(text, 0, 0)) * Advance]

\* Layout::height()
LayoutHeight(text_layout) == text_layout.lines * text_layout.line_height

----------------------------------------------------------------------------
(* Theme (crate::theme) and the files image::open can decode.              *)

markdown_indentation_decoration_width == 2
markdown_bullet_list_indentation == 1
markdown_numbered_list_indentation == 1
markdown_list_after_indentation == 1

\* image::open(uri): the decoded dimensions, or None when it fails
ImageOpen(uri) ==
    IF uri \in files THEN Some([width |-> 4, height |-> 5]) ELSE None

----------------------------------------------------------------------------
(* The content model: MarkdownContent, List, ListMarker, TextMarker.       *)

TextMarker(start_pos, end_pos, kind) ==
    [start_pos |-> start_pos, end_pos |-> end_pos, kind |-> kind]

ParagraphBlock(top_margin, text, markers) ==
    [kind |-> "Paragraph", top_margin |-> top_margin, text |-> text,
     markers |-> markers, text_layout |-> LayoutNew]
HeaderBlock(level, text, markers) ==
    [kind |-> "Header", level |-> level, text |-> text, markers |-> markers,
     text_layout |-> LayoutNew]
ImageBlock(uri, title) ==
    [kind |-> "Image", uri |-> uri, title |-> title, image |-> None]
IndentedBlock(flow) == [kind |-> "Indented", flow |-> flow]
HorizontalLineBlock(height) == [kind |-> "HorizontalLine", height |-> height]
ListBlock(marker, list) ==
    [kind |-> "List",
     list |-> [list |-> list, marker |-> marker, indentation |-> 0]]
SymbolMarker(symbol) == [kind |-> "Symbol", symbol |-> symbol, layout |-> LayoutNew]
NumbersMarker(start_number) ==
    [kind |-> "Numbers", start_number |-> start_number, layouted |-> <<>>]

\* the bullet, three bytes of UTF-8
BulletSymbol == <<"E2", "80", "A2">>

\* u32 arithmetic wraps at 2^32, more than TLC's integers hold: the model
\* keeps list numbers in a narrower unsigned type that wraps at U32Wrap
U32Wrap == 256

RECURSIVE SumHeights(_)
\* the sum of the heights of a sequence of flows
SumHeights(flows) ==
    IF flows = <<>> THEN 0 ELSE Head(flows).height + SumHeights(Tail(flows))

\* a slip in the List arm: the first item's height for the sum of all
HeightFirstItem(data) ==
    CASE data.kind = "Paragraph" -> LayoutHeight(data.text_layout) + data.top_margin
      [] data.kind = "Image" ->
            IF data.image = None THEN 0 ELSE data.image[1].height
      [] data.kind = "CodeBlock" -> LayoutHeight(data.text_layout)
      [] data.kind = "Indented" -> data.flow.height
      [] data.kind = "List" ->
            SumHeights(SubSeq(data.list.list, 1, Min(1, Len(data.list.list))))
      [] data.kind = "HorizontalLine" -> data.height
      [] data.kind = "Header" -> LayoutHeight(data.text_layout)

\* LayoutData::height for MarkdownContent
Height(data) ==
    CASE data.kind = "Paragraph" -> LayoutHeight(data.text_layout) + data.top_margin
      [] data.kind = "Image" ->
            IF data.image = None THEN 0 ELSE data.image[1].height
      [] data.kind = "CodeBlock" -> LayoutHeight(data.text_layout)
      [] data.kind = "Indented" -> data.flow.height
      [] data.kind = "List" -> SumHeights(data.list.list)
      [] data.kind = "HorizontalLine" -> data.height
      [] data.kind = "Header" -> LayoutHeight(data.text_layout)

----------------------------------------------------------------------------
(* LayoutFlow (crate::layout_flow): the blocks in order, each with its     *)
(* cached offset, and the flow's height, the terminal offset.              *)

LayoutFlowNew == [flow |-> <<>>, height |-> 0]

\* LayoutFlow::push
Push(res, data) ==
    [flow |-> Append(res.flow, [offset |-> res.height, data |-> data]),
     height |-> res.height + Height(data)]

RECURSIVE Offsets(_, _)
\* the forward pass over the blocks `datas` that gives each its offset, from `at`
Offsets(datas, at) ==
    IF datas = <<>> THEN <<>>
    ELSE <<[offset |-> at, data |-> Head(datas)]>>
            \o Offsets(Tail(datas), at + Height(Head(datas)))

\* the flow over the blocks `datas`, offsets and height recomputed
Reflow(datas) ==
    LET items == Offsets(datas, 0)
    IN [flow |-> items,
        height |-> IF items = <<>> THEN 0
                   ELSE items[Len(items)].offset + Height(items[Len(items)].data)]

RECURSIVE BlocksOf(_)
RECURSIVE BlocksOfFlows(_)
\* the blocks of a flow at every depth
BlocksOf(flow) ==
    UNION {LET data == flow.flow[i].data IN
           {data} \cup
            (CASE data.kind = "Indented" -> BlocksOf(data.flow)
               [] data.kind = "List" -> BlocksOfFlows(data.list.list)
               [] OTHER -> {})
           : i \in 1..Len(flow.flow)}
BlocksOfFlows(flows) == UNION {BlocksOf(flows[k]) : k \in 1..Len(flows)}

----------------------------------------------------------------------------
(* The style-marker resolver.                                              *)

\* MarkeerState::new
MarkeerStateNew ==
    [bold_start |-> 0, italic_start |-> 0, strikethrough_start |-> 0,
     markers |-> <<>>]

\* process_marker: whether it handled the event, and the marker state after it
process_marker(event, marker_state, text_end) ==
    CASE event = Start("Strong") ->
            [handled |-> TRUE,
             marker_state |-> [marker_state EXCEPT !.bold_start = text_end]]
      [] event = Start("Emphasis") ->
            [handled |-> TRUE,
             marker_state |-> [marker_state EXCEPT !.italic_start = text_end]]
      [] event = Start("Strikethrough") ->
            [handled |-> TRUE,
             marker_state |->
                [marker_state EXCEPT !.strikethrough_start = text_end]]
      [] event = End("Strong") ->
            [handled |-> TRUE,
             marker_state |->
                [marker_state EXCEPT !.markers =
                    Append(@, TextMarker(marker_state.bold_start, text_end, "Bold"))]]
      [] event = End("Emphasis") ->
            [handled |-> TRUE,
             marker_state |->
                [marker_state EXCEPT !.markers =
                    Append(@, TextMarker(marker_state.strikethrough_start,
                                         text_end, "Italic"))]]
      [] event = End("Strikethrough") ->
            [handled |-> TRUE,
             marker_state |->
                [marker_state EXCEPT !.markers =
                    Append(@, TextMarker(marker_state.strikethrough_start,
                                         text_end, "Strikethrough"))]]
      [] OTHER -> [handled |-> FALSE, marker_state |-> marker_state]

----------------------------------------------------------------------------
(* The block builder.  A frame of `stack` holds the locals of one call;    *)
(* `pending` is the Start event whose arm is waiting for a nested call.    *)

EventsFrame(untill) ==
    [fn |-> "process_events", untill |-> untill, res |-> LayoutFlowNew,
     text |-> <<>>, marker_state |-> MarkeerStateNew, pending |-> None]
ListFrame == [fn |-> "process_list_events", list_elements |-> <<>>]
HeaderFrame(header_level) ==
    [fn |-> "process_header_events", header_level |-> header_level,
     text |-> <<>>, marker_state |-> MarkeerStateNew]
ImageFrame == [fn |-> "process_image_events", text |-> <<>>]

Top == stack[Len(stack)]
AtEnd == pos > Len(events)

IsSpace(c) == c \in {" ", "\n", "\t"}
RECURSIVE TrimStart(_)
TrimStart(text) ==
    IF text # <<>> /\ IsSpace(Head(text)) THEN TrimStart(Tail(text)) ELSE text
\* str::trim().is_empty()
TrimIsEmpty(text) == TrimStart(text) = <<>>

\* what one arm of process_events' match does: the frame after it, the call
\* it makes (None or Some frame), the diagnostics it logs and the panic it
\* raises ("" for none)
Arm(frame, call, logs, panicked) ==
    [frame |-> frame, call |-> call, logs |-> logs, panicked |-> panicked]
Todo == "not yet implemented"

\* the arms of `match event` for Event::Start(tag)
StartArm(frame, event) ==
    LET waiting == [frame EXCEPT !.pending = Some(event)] IN
    CASE event.tag = "Image" -> Arm(waiting, Some(ImageFrame), <<>>, "")
      [] event.tag = "CodeBlock" -> Arm(frame, None, <<>>, "")
      [] event.tag = "Table" ->
            Arm(frame, None, <<"Markdown tables not supported">>, "")
      [] event.tag = "Paragraph" -> Arm(frame, None, <<>>, "")
      [] event.tag = "Heading" ->
            Arm(waiting, Some(HeaderFrame(event.num[1])), <<>>, "")
      [] event.tag = "BlockQuote" ->
            Arm(waiting, Some(EventsFrame(Some(End("BlockQuote")))), <<>>, "")
      [] event.tag = "HtmlBlock" -> Arm(frame, None, <<>>, Todo)
      [] event.tag = "List" -> Arm(waiting, Some(ListFrame), <<>>, "")
      [] event.tag = "FootnoteDefinition" -> Arm(frame, None, <<>>, Todo)
      [] event.tag \in {"DefinitionList", "DefinitionListTitle",
                        "DefinitionListDefinition"} ->
            Arm(frame, None,
                <<"DefinitionList in markdown is not supported!">>, "")
      [] event.tag \in {"TableHead", "TableRow", "TableCell", "Link"} ->
            Arm(frame, None, <<>>, Todo)
      [] event.tag = "MetadataBlock" ->
            Arm(frame, None,
                <<"MetadataBlock in markdown are not supported">>, "")
      [] OTHER -> Arm(frame, None, <<>>, "")

\* the arms of `match end_tag` for Event::End(end_tag)
EndArm(frame, event) ==
    CASE event.tag = "Paragraph" ->
            IF ~TrimIsEmpty(frame.text)
            THEN Arm([frame EXCEPT
                        !.res = Push(@, ParagraphBlock(10, frame.text,
                                                      frame.marker_state.markers)),
                        !.text = <<>>,
                        !.marker_state.markers = <<>>],
                     None, <<>>, "")
            ELSE Arm(frame, None, <<>>, "")
      [] event.tag \in {"CodeBlock", "HtmlBlock", "FootnoteDefinition", "Table",
                        "TableHead", "TableRow", "TableCell", "Link"} ->
            Arm(frame, None, <<>>, Todo)
      [] OTHER ->
            Arm(frame, None, <<"Markdown parsing unprocessed end tag">>, "")

\* Event::Code and Event::Html: an InlineCode marker over the pushed text
PushCode(frame, text_bit) ==
    [frame EXCEPT
        !.marker_state.markers =
            Append(@, TextMarker(Len(frame.text),
                                 Len(frame.text) + Len(text_bit), "InlineCode")),
        !.text = @ \o text_bit]

\* `match event` of process_events, for an event process_marker left alone
MatchEvent(frame, event) ==
    CASE event.ev = "Start" -> StartArm(frame, event)
      [] event.ev = "End" -> EndArm(frame, event)
      [] event.ev = "Text" ->
            Arm([frame EXCEPT !.text = @ \o event.text], None, <<>>, "")
      [] event.ev \in {"Code", "Html"} ->
            Arm(PushCode(frame, event.text), None, <<>>, "")
      [] event.ev = "HardBreak" ->
            Arm([frame EXCEPT !.text = Append(@, "\n")], None, <<>>, "")
      [] event.ev = "SoftBreak" ->
            Arm([frame EXCEPT !.text = Append(@, " ")], None, <<>>, "")
      [] event.ev = "Rule" ->
            Arm([frame EXCEPT !.res = Push(@, HorizontalLineBlock(0))],
                None, <<>>, "")
      [] event.ev = "FootnoteReference" ->
            Arm(frame, None,
                <<"FootnoteReference in markdown is not supported!">>, "")
      [] event.ev = "TaskListMarker" ->
            Arm(frame, None,
                <<"TaskListMarker in markdown is not supported!">>, "")
      [] event.ev = "InlineHtml" ->
            Arm(frame, None, <<"InlineHtml in markdown is not supported!">>, "")
      [] event.ev = "InlineMath" ->
            Arm(frame, None, <<"InlineMath in markdown is not supported!">>, "")
      [] event.ev = "DisplayMath" ->
            Arm(frame, None, <<"DisplayMath in markdown is not supported!">>, "")

\* the end of process_events: the pending text becomes a last Paragraph
FinishEvents(frame) ==
    IF frame.text # <<>>
    THEN Push(frame.res,
              ParagraphBlock(12, frame.text, frame.marker_state.markers))
    ELSE frame.res

\* the list marker process_events makes of Tag::List(list_marker)
MarkerOf(list_marker) ==
    IF list_marker # None
    THEN NumbersMarker(list_marker[1] % U32Wrap)
    ELSE SymbolMarker(BulletSymbol)

\* the caller's frame once the call it waits for has returned `value`
Resume(frame, value) ==
    IF frame.fn = "process_list_events"
    THEN [frame EXCEPT !.list_elements = Append(@, value)]
    ELSE LET tag == frame.pending[1]
             data ==
                CASE tag.tag = "Image" -> ImageBlock(tag.text[1], tag.text[2])
                  [] tag.tag = "Heading" -> value
                  [] tag.tag = "BlockQuote" -> IndentedBlock(value)
                  [] tag.tag = "List" -> ListBlock(MarkerOf(tag.num), value)
         IN [frame EXCEPT !.res = Push(@, data), !.pending = None]

\* MarkdowWidget::new once parse_markdown has returned
WidgetNew(flow) ==
    /\ markdown_layout' = flow
    /\ dirty' = TRUE
    /\ max_advance' = 0
    /\ scroll' = [x |-> 0, y |-> 0]
    /\ pc' = "ready"

\* the innermost call consumes `n` events, logs `logs` and returns `value`
Return(n, logs, value) ==
    /\ pos' = pos + n
    /\ diag' = diag \o logs
    /\ panic' = panic
    /\ UNCHANGED <<events, files, size, measured, scene>>
    /\ IF Len(stack) = 1
       THEN /\ stack' = <<>>
            /\ WidgetNew(value)
       ELSE /\ stack' = Append(SubSeq(stack, 1, Len(stack) - 2),
                               Resume(stack[Len(stack) - 1], value))
            /\ UNCHANGED <<markdown_layout, dirty, max_advance, scroll, pc>>

\* the innermost call consumes one event and goes on as `frame`, after
\* calling `call` if there is one
Continue(frame, call, logs) ==
    /\ pos' = pos + 1
    /\ diag' = diag \o logs
    /\ stack' = SubSeq(stack, 1, Len(stack) - 1) \o <<frame>> \o call
    /\ UNCHANGED <<events, files, pc, panic, markdown_layout, dirty, max_advance,
                   scroll, size, measured, scene>>

\* the innermost call panics: the process is gone
Abort(site, message) ==
    /\ pc' = "aborted"
    /\ panic' = site \o ": " \o message
    /\ UNCHANGED <<events, files, pos, stack, diag, markdown_layout, dirty,
                   max_advance, scroll, size, measured, scene>>

\* one turn of process_events' loop, or its end
ProcessEvents ==
    /\ pc = "parsing"
    /\ Top.fn = "process_events"
    /\ IF AtEnd THEN Return(0, <<>>, FinishEvents(Top))
       ELSE LET event == events[pos]
                marked == process_marker(event, Top.marker_state, Len(Top.text))
                arm == MatchEvent(Top, event)
            IN IF Top.untill # None /\ EventEq(event, Top.untill[1])
               THEN Return(1, <<>>, FinishEvents(Top))
               ELSE IF marked.handled
               THEN Continue([Top EXCEPT !.marker_state = marked.marker_state],
                             None, <<>>)
               ELSE IF arm.panicked # ""
               THEN Abort("process_events " \o event.ev \o " " \o event.tag,
                          arm.panicked)
               ELSE Continue(arm.frame, arm.call, arm.logs)

\* one turn of process_list_events' loop, or its end
ProcessListEvents ==
    /\ pc = "parsing"
    /\ Top.fn = "process_list_events"
    /\ IF AtEnd THEN Return(0, <<>>, Top.list_elements)
       ELSE LET event == events[pos] IN
            IF event = Start("Item")
            THEN Continue(Top, Some(EventsFrame(Some(End("Item")))), <<>>)
            ELSE IF event.ev = "End" /\ event.tag = "List"
            THEN Return(1, <<>>, Top.list_elements)
            ELSE Abort("process_list_events",
                       "List tag parsing expects List end tag")

\* one turn of process_header_events' loop, or its end
ProcessHeaderEvents ==
    /\ pc = "parsing"
    /\ Top.fn = "process_header_events"
    /\ IF AtEnd
       THEN Abort("process_header_events",
                  "Header tag parsing expects Heading end tag and none was received")
       ELSE LET event == events[pos]
                marked == process_marker(event, Top.marker_state, Len(Top.text))
            IN IF marked.handled
               THEN Continue([Top EXCEPT !.marker_state = marked.marker_state],
                             None, <<>>)
               ELSE IF event.ev = "Text"
               THEN Continue([Top EXCEPT !.text = @ \o event.text], None, <<>>)
               ELSE IF event.ev = "End" /\ event.tag = "Heading"
               THEN Return(1, <<>>,
                           HeaderBlock(Top.header_level, Top.text,
                                       Top.marker_state.markers))
               ELSE Continue(Top, None,
                             <<"Header tag parsing expects only some event">>)

\* one turn of process_image_events' loop, or its end
ProcessImageEvents ==
    /\ pc = "parsing"
    /\ Top.fn = "process_image_events"
    /\ IF AtEnd
       THEN Return(0, <<"Image tag parsing expects Image End tag and none was received">>,
                   <<>>)
       ELSE LET event == events[pos] IN
            IF event.ev = "Text"
            THEN Continue([Top EXCEPT !.text = event.text], None, <<>>)
            ELSE IF event = End("Image")
            THEN Return(1, <<>>, Top.text)
            ELSE Continue(Top, None,
                          <<"Image tag parsing expects only Text event">>)

----------------------------------------------------------------------------
(* The measurement pass: MarkdownContent::layout under                     *)
(* LayoutFlow::apply_to_all.  A result is [ok, ...]; ok is FALSE when the  *)
(* pass panicked.                                                          *)

Digits == <<"0", "1", "2", "3", "4", "5", "6", "7", "8", "9">>
RECURSIVE to_string(_)
\* u32::to_string
to_string(n) ==
    IF n < 10 THEN <<Digits[n + 1]>>
    ELSE Append(to_string(n \div 10), Digits[(n % 10) + 1])

\* the font size of a heading, theme.text_size as f32 * {2.125, ..., 1.0}
HeaderFontSize(level) ==
    CASE level = 1 -> (TextSize * 17) \div 8
      [] level = 2 -> (TextSize * 15) \div 8
      [] level = 3 -> (TextSize * 12) \div 8
      [] level = 4 -> (TextSize * 10) \div 8
      [] level = 5 -> (TextSize * 9) \div 8
      [] level = 6 -> TextSize

RECURSIVE NumberLayouts(_, _, _)
\* the loop over k of the ListMarker::Numbers arm, from item k on
NumberLayouts(k, n, start_number) ==
    IF k >= n THEN <<>>
    ELSE <<break_all_lines(Append(to_string((k + start_number) % U32Wrap), "."),
                           None, TextSize)>>
            \o NumberLayouts(k + 1, n, start_number)

\* a slip in the Numbers arm: the width of the first label for the widest
FirstMarkerWidth(layouted) ==
    IF layouted = <<>> THEN 0
    ELSE Head(layouted).full_width + markdown_numbered_list_indentation
            + markdown_list_after_indentation

RECURSIVE MarkerWidthNoBefore(_)
\* a slip in the Numbers arm: the spacing before the marker left out
MarkerWidthNoBefore(layouted) ==
    IF layouted = <<>> THEN 0
    ELSE Max(Head(layouted).full_width + markdown_list_after_indentation,
             MarkerWidthNoBefore(Tail(layouted)))

RECURSIVE MaxMarkerWidth(_)
\* max_width of the Numbers arm: the widest label and the two spacings
MaxMarkerWidth(layouted) ==
    IF layouted = <<>> THEN 0
    ELSE Max(Head(layouted).full_width + markdown_numbered_list_indentation
                + markdown_list_after_indentation,
             MaxMarkerWidth(Tail(layouted)))

\* a slip in the Numbers arm: `layouted.clear()` left out
LayoutMarkerNoClear(list) ==
    IF list.marker.kind = "Symbol"
    THEN LET marker_layout ==
                break_all_lines(list.marker.symbol, None, TextSize)
         IN [list EXCEPT
                !.marker.layout = marker_layout,
                !.indentation = marker_layout.full_width
                                  + markdown_bullet_list_indentation
                                  + markdown_list_after_indentation]
    ELSE LET layouted ==
                NumberLayouts(0, Len(list.list), list.marker.start_number)
         IN [list EXCEPT
                !.marker.layouted = @ \o layouted,
                !.indentation = MaxMarkerWidth(layouted)]

\* a slip in the Numbers arm: the counter written back to start_number
LayoutMarkerRenumbers(list) ==
    IF list.marker.kind = "Symbol"
    THEN LET marker_layout ==
                break_all_lines(list.marker.symbol, None, TextSize)
         IN [list EXCEPT
                !.marker.layout = marker_layout,
                !.indentation = marker_layout.full_width
                                  + markdown_bullet_list_indentation
                                  + markdown_list_after_indentation]
    ELSE LET layouted ==
                NumberLayouts(0, Len(list.list), list.marker.start_number)
         IN [list EXCEPT
                !.marker.layouted = layouted,
                !.marker.start_number = (@ + Len(list.list)) % U32Wrap,
                !.indentation = MaxMarkerWidth(layouted)]

\* the `match &mut list.marker` of the List arm: the list with its marker
\* laid out and its indentation set
LayoutMarker(list) ==
    IF list.marker.kind = "Symbol"
    THEN LET marker_layout ==
                break_all_lines(list.marker.symbol, None, TextSize)
         IN [list EXCEPT
                !.marker.layout = marker_layout,
                !.indentation = marker_layout.full_width
                                  + markdown_bullet_list_indentation
                                  + markdown_list_after_indentation]
    ELSE LET layouted ==
                NumberLayouts(0, Len(list.list), list.marker.start_number)
         IN [list EXCEPT
                !.marker.layouted = layouted,
                !.indentation = MaxMarkerWidth(layouted)]

\* a slip in the Image arm: `if image.is_none()` left out
LayoutImageAlways(data) ==
    IF ImageOpen(data.uri) = None THEN [ok |-> FALSE, data |-> data]
    ELSE [ok |-> TRUE, data |-> [data EXCEPT !.image = ImageOpen(data.uri)]]

\* the Image arm of MarkdownContent::layout: the file is opened and decoded
\* while the block has no handle; a failure panics
LayoutImage(data) ==
    IF data.image # None THEN [ok |-> TRUE, data |-> data]
    ELSE IF ImageOpen(data.uri) = None THEN [ok |-> FALSE, data |-> data]
    ELSE [ok |-> TRUE, data |-> [data EXCEPT !.image = ImageOpen(data.uri)]]

RECURSIVE MarkdownContent_layout(_, _)
RECURSIVE LayoutEach(_, _)
RECURSIVE LayoutFlows(_, _)

\* LayoutFlow::apply_to_all(|data| data.layout(.., width, ..)): every block
\* laid out in order, then the offsets recomputed in one forward pass
apply_to_all(flow, width) ==
    LET each == LayoutEach([i \in 1..Len(flow.flow) |-> flow.flow[i].data], width)
    IN [ok |-> each.ok, flow |-> Reflow(each.datas)]

LayoutEach(datas, width) ==
    IF datas = <<>> THEN [ok |-> TRUE, datas |-> <<>>]
    ELSE LET first == MarkdownContent_layout(Head(datas), width)
             rest == LayoutEach(Tail(datas), width)
         IN IF ~first.ok THEN [ok |-> FALSE, datas |-> datas]
            ELSE [ok |-> rest.ok, datas |-> <<first.data>> \o rest.datas]

\* a slip in the List arm: the loop over the items left out
LayoutFlowsSkipped(flows, width) == [ok |-> TRUE, flows |-> flows]

\* `for element in list.list.iter_mut()` of the List arm
LayoutFlows(flows, width) ==
    IF flows = <<>> THEN [ok |-> TRUE, flows |-> <<>>]
    ELSE LET first == apply_to_all(Head(flows), width)
             rest == LayoutFlows(Tail(flows), width)
         IN IF ~first.ok THEN [ok |-> FALSE, flows |-> flows]
            ELSE [ok |-> rest.ok, flows |-> <<first.flow>> \o rest.flows]

\* MarkdownContent::layout
MarkdownContent_layout(data, width) ==
    CASE data.kind = "Paragraph" ->
            [ok |-> TRUE,
             data |-> [data EXCEPT !.text_layout =
                          break_all_lines(data.text, Some(width), TextSize)]]
      [] data.kind = "Image" -> LayoutImage(data)
      [] data.kind = "CodeBlock" -> [ok |-> TRUE, data |-> data]
      [] data.kind = "Indented" ->
            LET inner == apply_to_all(data.flow,
                             width - markdown_indentation_decoration_width)
            IN [ok |-> inner.ok, data |-> [data EXCEPT !.flow = inner.flow]]
      [] data.kind = "List" ->
            LET list == LayoutMarker(data.list)
                items == LayoutFlows(list.list, width - list.indentation)
            IN [ok |-> items.ok,
                data |-> [data EXCEPT !.list = [list EXCEPT !.list = items.flows]]]
      [] data.kind = "HorizontalLine" -> [ok |-> TRUE, data |-> data]
      [] data.kind = "Header" ->
            [ok |-> TRUE,
             data |-> [data EXCEPT !.text_layout =
                          break_all_lines(data.text, Some(width),
                                          2 * HeaderFontSize(data.level))]]

\* ctx.baseline_offset(), as the host reports it
BaselineOffset == 0
SCROLLING_SPEED == 3

\* the widths the host offers
Widths == {MaxWidth - 1, MaxWidth}

\* a slip in the condition: `&&` for `||`
ShouldMeasureBoth(width) == dirty /\ max_advance # width

\* `self.dirty || self.max_advance != size.width`
ShouldMeasure(width) == dirty \/ max_advance # width

\* MarkdowWidget::layout with bc.max() = (width, ViewHeight)
MarkdowWidget_layout(width) ==
    /\ pc = "ready"
    /\ LET run == ShouldMeasure(width)
           pass == apply_to_all(markdown_layout, width)
       IN IF run /\ ~pass.ok
          THEN /\ pc' = "aborted"
               /\ panic' = "MarkdownContent::layout: image::open(uri).unwrap()"
               /\ UNCHANGED <<markdown_layout, dirty, max_advance, size,
                              measured, scene>>
          ELSE /\ markdown_layout' = IF run THEN pass.flow ELSE markdown_layout
               /\ measured' = run
               /\ max_advance' = width
               /\ dirty' = FALSE
               /\ size' = [width |-> width, height |-> ViewHeight]
               /\ scene' = <<>>
               /\ UNCHANGED <<pc, panic>>
    /\ UNCHANGED <<events, files, pos, stack, diag, scroll>>

----------------------------------------------------------------------------
(* Painting.  A draw call is [op, path, x, y, y0, y1]: what was drawn      *)
(* ("paint" records the call of MarkdownContent::paint itself), the block  *)
(* it belongs to (indices from the root flow down), the translation and    *)
(* the vertical extent of the source rectangle.  A result is [ok, calls].  *)

Call(op, path, translation, source_rect) ==
    [op |-> op, path |-> path, x |-> translation.x, y |-> translation.y,
     y0 |-> source_rect.y0, y1 |-> source_rect.y1]

RECURSIVE VisibleFrom(_, _, _, _)
\* the indices, from i on, of the blocks whose span meets [top, top + height)
VisibleFrom(flow, i, top, height) ==
    IF i > Len(flow.flow) THEN <<>>
    ELSE LET item == flow.flow[i]
             meets == /\ item.offset < top + height
                      /\ item.offset + Height(item.data) > top
         IN (IF meets THEN <<i>> ELSE <<>>)
                \o VisibleFrom(flow, i + 1, top, height)

\* LayoutFlow::get_visible_parts
get_visible_parts(flow, top, height) == VisibleFrom(flow, 1, top, height)

\* the visible part's get_source_rect: the source rectangle clipped to the
\* block's span, in the block's own coordinates
get_source_rect(item, source_rect) ==
    [y0 |-> Max(source_rect.y0, item.offset) - item.offset,
     y1 |-> Min(source_rect.y1, item.offset + Height(item.data)) - item.offset]

RECURSIVE MarkdownContent_paint(_, _, _, _)
RECURSIVE DrawParts(_, _, _, _, _, _)
RECURSIVE PaintItems(_, _, _, _, _)

\* the loop of draw_flow over the visible parts `parts`
DrawParts(flow, parts, path, source_translation, source_rect, apply_scroll) ==
    IF parts = <<>> THEN [ok |-> TRUE, calls |-> <<>>]
    ELSE LET visible_part == flow.flow[Head(parts)]
             offset == IF apply_scroll THEN source_rect.y0 ELSE 0
             translation ==
                [x |-> source_translation.x,
                 y |-> source_translation.y + visible_part.offset - offset]
             first == MarkdownContent_paint(
                          visible_part.data, Append(path, Head(parts)),
                          translation,
                          get_source_rect(visible_part, source_rect))
             rest == DrawParts(flow, Tail(parts), path, source_translation,
                               source_rect, apply_scroll)
         IN IF ~first.ok THEN first
            ELSE [ok |-> rest.ok, calls |-> first.calls \o rest.calls]

\* a slip in draw_flow: the scroll offset subtracted in nested flows too
draw_flow_scrolled(flow, path, source_translation, source_rect, apply_scroll) ==
    DrawParts(flow,
              get_visible_parts(flow, source_rect.y0,
                                source_rect.y1 - source_rect.y0),
              path, source_translation, source_rect, TRUE)

draw_flow(flow, path, source_translation, source_rect, apply_scroll) ==
    DrawParts(flow,
              get_visible_parts(flow, source_rect.y0,
                                source_rect.y1 - source_rect.y0),
              path, source_translation, source_rect, apply_scroll)

\* the List arm of paint, from the item `index` (counted from 0) on
PaintItems(list, index, path, translation, source_rect) ==
    IF index >= Len(list.list) THEN [ok |-> TRUE, calls |-> <<>>]
    ELSE LET flow == list.list[index + 1]
             item_path == Append(path, index + 1)
             inner == draw_flow(flow, item_path,
                                [translation EXCEPT !.x = @ + list.indentation],
                                source_rect, FALSE)
             in_range == index < Len(list.marker.layouted)
             marker ==
                IF list.marker.kind = "Symbol"
                THEN Call("draw_marker", item_path,
                          [translation EXCEPT
                              !.x = @ + markdown_bullet_list_indentation],
                          source_rect)
                ELSE Call("draw_marker", item_path,
                          [translation EXCEPT
                              !.x = @ + list.indentation
                                      - list.marker.layouted[index + 1].full_width
                                      - markdown_list_after_indentation],
                          source_rect)
             rest == PaintItems(list, index + 1, path,
                                [translation EXCEPT !.y = @ + flow.height],
                                source_rect)
         IN IF ~inner.ok THEN inner
            ELSE IF list.marker.kind = "Numbers" /\ ~in_range
            THEN [ok |-> FALSE, calls |-> inner.calls]
            ELSE [ok |-> rest.ok,
                  calls |-> inner.calls \o <<marker>> \o rest.calls]

\* MarkdownContent::paint
MarkdownContent_paint(data, path, translation, source_rect) ==
    LET called == <<Call("paint", path, translation, source_rect)>> IN
    CASE data.kind \in {"Paragraph", "Header"} ->
            [ok |-> TRUE,
             calls |-> called
                        \o <<Call("draw_text", path, translation, source_rect)>>]
      [] data.kind = "Image" ->
            [ok |-> TRUE,
             calls |-> called
                        \o IF data.image # None
                           THEN <<Call("draw_image", path, translation,
                                       source_rect)>>
                           ELSE <<>>]
      [] data.kind \in {"CodeBlock", "HorizontalLine"} ->
            [ok |-> FALSE, calls |-> called]
      [] data.kind = "Indented" ->
            LET inner == draw_flow(data.flow, path,
                            [translation EXCEPT
                                !.x = @ + markdown_indentation_decoration_width],
                            source_rect, FALSE)
            IN [ok |-> inner.ok, calls |-> called \o inner.calls]
      [] data.kind = "List" ->
            LET inner == PaintItems(data.list, 0, path, translation, source_rect)
            IN [ok |-> inner.ok, calls |-> called \o inner.calls]

\* MarkdowWidget::paint.  The host lays a widget out before it paints it.
MarkdowWidget_paint ==
    /\ pc = "ready"
    /\ ~dirty
    /\ LET source_rect == [y0 |-> scroll.y, y1 |-> scroll.y + size.height]
           drawn == draw_flow(markdown_layout, <<>>, [x |-> 0, y |-> 0],
                              source_rect, TRUE)
       IN /\ scene' = drawn.calls
          /\ pc' = IF drawn.ok THEN pc ELSE "aborted"
          /\ panic' = IF drawn.ok THEN panic
                      ELSE "MarkdownContent::paint: " \o Todo
    /\ UNCHANGED <<events, files, pos, stack, diag, markdown_layout, dirty,
                   max_advance, scroll, size, measured>>

\* a slip in the wheel handler: a layout requested with the paint
PointerEventMarksDirty(delta) ==
    /\ pc = "ready"
    /\ ~dirty
    /\ LET moved == [x |-> scroll.x + delta.x * (0 - SCROLLING_SPEED),
                     y |-> scroll.y + delta.y * (0 - SCROLLING_SPEED)]
           floored == [x |-> Max(moved.x, 0), y |-> Max(moved.y, 0)]
       IN scroll' = [x |-> Min(floored.x, 0),
                     y |-> Min(floored.y,
                               markdown_layout.height - size.height
                                 + BaselineOffset)]
    /\ scene' = <<>>
    /\ dirty' = TRUE
    /\ UNCHANGED <<events, files, pos, stack, diag, pc, panic, markdown_layout,
                   max_advance, size, measured>>

\* MarkdowWidget::on_pointer_event for PointerEvent::MouseWheel(delta, _).
\* The host sends pointer events to a widget it has laid out.
MarkdowWidget_on_pointer_event(delta) ==
    /\ pc = "ready"
    /\ ~dirty
    /\ LET moved == [x |-> scroll.x + delta.x * (0 - SCROLLING_SPEED),
                     y |-> scroll.y + delta.y * (0 - SCROLLING_SPEED)]
           floored == [x |-> Max(moved.x, 0), y |-> Max(moved.y, 0)]
       IN scroll' = [x |-> Min(floored.x, 0),
                     y |-> Min(floored.y,
                               markdown_layout.height - size.height
                                 + BaselineOffset)]
    /\ scene' = <<>>
    /\ UNCHANGED <<events, files, pos, stack, diag, pc, panic, markdown_layout, dirty,
                   max_advance, size, measured>>

Deltas == {[x |-> 0, y |-> dy] : dy \in {0 - MaxDelta, MaxDelta}}

----------------------------------------------------------------------------
(* The documents: the event sequences of at most MaxBlocks top-level       *)
(* constructs, each one of Constructs, and at most MaxEvents events.       *)

\* "**a** *b* ~~c~~ `d`"
MarkerRoundTrip ==
    MdParagraph(MdStrong(<<Text(<<"a">>)>>) \o <<Text(<<" ">>)>>
                \o MdEmphasis(<<Text(<<"b">>)>>) \o <<Text(<<" ">>)>>
                \o MdStrikethrough(<<Text(<<"c">>)>>) \o <<Text(<<" ">>)>>
                \o <<Code(<<"d">>)>>)

\* "ab cd ef gh" with a soft and a hard break, and inline constructs the
\* builder only logs
Breaks ==
    MdParagraph(<<Text(<<"a", "b", " ", "c", "d">>), SoftBreak,
                  Text(<<"e", "f">>), InlineHtml(<<"<", "i", ">">>), HardBreak,
                  Text(<<"g", "h">>), FootnoteReference(<<"n">>),
                  InlineMath(<<"x">>)>>)

\* a Strong span over "abc" with a Strong span over "b" inside it
NestedStrong ==
    MdParagraph(MdStrong(<<Text(<<"a">>)>> \o MdStrong(<<Text(<<"b">>)>>)
                         \o <<Text(<<"c">>)>>))

\* "- [ ] o\n  - i": a tight list whose item holds text, then a list
TightNestedList ==
    MdList(None,
           MdItem(<<TaskListMarker, Text(<<"o">>)>>
                  \o MdList(None, MdItem(<<Text(<<"i">>)>>))))

\* "a `d`" with a soft break, as the content of a paragraph or of a heading
WithCode == <<Text(<<"a">>), SoftBreak, Code(<<"d">>)>>

Constructs ==
    { MarkerRoundTrip,
      Breaks,
      NestedStrong,
      MdHeading(2, WithCode),
      \* "### ![alt](ok.png)"
      MdHeading(3, MdImage("ok.png", "t", <<"a", "l", "t">>)),
      MdParagraph(WithCode),
      MdParagraph(MdEmphasis(<<Text(<<"b">>)>>)),
      MdParagraph(<<Text(<<"p", "l", "a", "i", "n", " ", "t", "e", "x", "t">>)>>),
      <<Rule>>,
      \* "` `": a code span of one space
      MdParagraph(<<Code(<<" ">>)>>),
      MdParagraph(MdImage("ok.png", "t", <<"a", "l", "t">>)),
      MdParagraph(MdImage("missing.png", "t", <<"a", "l", "t">>)),
      MdHeading(1, <<Text(<<"h">>)>>),
      MdHeading(6, MdStrong(<<Text(<<"t", "i", "t", "l", "e", " ", "6">>)>>)),
      MdList(None, MdItem(<<Text(<<"x">>)>>) \o MdItem(<<Text(<<"y", "z">>)>>)),
      MdList(Some(9),
             MdItem(MdParagraph(<<Text(<<"n", "i", "n", "e">>)>>))
               \o MdItem(MdParagraph(<<Text(<<"t", "e", "n">>)>>))),
      \* a list whose start number does not fit the type of start_number
      MdList(Some(U32Wrap + 3), MdItem(<<Text(<<"w">>)>>)),
      TightNestedList,
      MdBlockQuote(MdParagraph(<<Text(<<"q", "u", "o", "t", "e", "d">>)>>)),
      MdParagraph(MdLink(<<Text(<<"L">>)>>)),
      MdCodeBlock(<<"C", "O", "D", "E">>),
      MdHtmlBlock(<<"<", "p", ">">>),
      MdTable(<<"X">>),
      MdDefinitionList(<<"T">>, <<"D">>),
      MdFootnoteDefinition(<<"F">>),
      MdMetadataBlock(<<"M">>),
      <<DisplayMath(<<"x">>)>> }

RECURSIVE Documents(_)
\* the event sequences of at most n constructs
Documents(n) ==
    IF n = 0 THEN {<<>>}
    ELSE LET shorter == Documents(n - 1)
         IN shorter \cup {e \in {d \o c : d \in shorter, c \in Constructs} :
                              Len(e) <= MaxEvents}

\* streams that end inside the scope of a heading or of an image's alt text
CutShort ==
    { <<StartHeading(1), Text(<<"h">>)>>,
      <<Start("Paragraph"), StartImage("ok.png", "t"), Text(<<"a", "l", "t">>)>> }

Init ==
    /\ events \in Documents(MaxBlocks) \cup CutShort
    /\ pos = 1
    /\ stack = <<EventsFrame(None)>>
    /\ diag = <<>>
    /\ pc = "parsing"
    /\ panic = ""
    /\ markdown_layout = LayoutFlowNew
    /\ dirty = TRUE
    /\ max_advance = 0
    /\ scroll = [x |-> 0, y |-> 0]
    /\ size = [width |-> 0, height |-> 0]
    /\ measured = FALSE
    /\ scene = <<>>
    /\ files = {"ok.png"}

\* a file the document has decoded is removed or overwritten with something
\* that is no image; this happens, if at all, while the document is laid
\* out at the narrower of the widths
FileRemoved ==
    /\ pc = "ready"
    /\ ~dirty
    /\ max_advance = MaxWidth - 1
    /\ \E data \in BlocksOf(markdown_layout) :
          data.kind = "Image" /\ data.image # None /\ data.uri \in files
    /\ files' = {}
    /\ UNCHANGED <<events, pos, stack, diag, pc, panic, markdown_layout, dirty,
                   max_advance, scroll, size, measured, scene>>

Next ==
    \/ ProcessEvents
    \/ ProcessListEvents
    \/ ProcessHeaderEvents
    \/ ProcessImageEvents
    \/ \E width \in Widths : MarkdowWidget_layout(width)
    \/ MarkdowWidget_paint
    \/ \E delta \in Deltas : MarkdowWidget_on_pointer_event(delta)
    \/ FileRemoved

Spec == Init /\ [][Next]_vars

----------------------------------------------------------------------------
(* What the properties below speak about.                                  *)

RECURSIVE FlowsOf(_)
\* a flow and the flows nested in its List items and Indented blocks
FlowsOf(flow) ==
    {flow} \cup
    UNION {LET data == flow.flow[i].data IN
           CASE data.kind = "Indented" -> FlowsOf(data.flow)
             [] data.kind = "List" ->
                    UNION {FlowsOf(data.list.list[k]) :
                             k \in 1..Len(data.list.list)}
             [] OTHER -> {}
           : i \in 1..Len(flow.flow)}

\* the blocks built so far: those of the widget's document and those the
\* calls in progress have collected
BuiltBlocks ==
    BlocksOf(markdown_layout) \cup
    UNION {IF stack[i].fn = "process_events" THEN BlocksOf(stack[i].res)
           ELSE IF stack[i].fn = "process_list_events"
           THEN BlocksOfFlows(stack[i].list_elements)
           ELSE {}
           : i \in 1..Len(stack)}

IsPrefix(p, q) == Len(p) <= Len(q) /\ SubSeq(q, 1, Len(p)) = p

ImageOpenPanic == "MarkdownContent::layout: image::open(uri).unwrap()"
PaintPanic == "MarkdownContent::paint: " \o Todo

----------------------------------------------------------------------------
\* C1: for the events of "**a** *b* ~~c~~ `d`" the builder emits exactly one
\* marker per span, of the matching kind, from the text length at the span's
\* own start token to the text length at its end token: Bold [0,1),
\* Italic [2,3), Strikethrough [4,5), InlineCode [6,7).
C1_MarkerRoundTrip ==
    (pc = "ready" /\ IsPrefix(MarkerRoundTrip, events)) =>
        markdown_layout.flow[1].data.markers =
            <<TextMarker(0, 1, "Bold"), TextMarker(2, 3, "Italic"),
              TextMarker(4, 5, "Strikethrough"), TextMarker(6, 7, "InlineCode")>>

\* C2: every style marker of every emitted Paragraph or Heading block lies
\* in the block's own text: 0 <= start_pos <= end_pos <= length of the text.
C2_MarkersWithinOwnText ==
    \A data \in BuiltBlocks :
        data.kind \in {"Paragraph", "Header"} =>
            \A i \in 1..Len(data.markers) :
                /\ 0 <= data.markers[i].start_pos
                /\ data.markers[i].start_pos <= data.markers[i].end_pos
                /\ data.markers[i].end_pos <= Len(data.text)

UnsupportedTags ==
    {"Table", "TableHead", "TableRow", "TableCell", "FootnoteDefinition",
     "DefinitionList", "DefinitionListTitle", "DefinitionListDefinition",
     "HtmlBlock", "Link"}
\* a start or end token of an unsupported construct, or an unsupported token
IsUnsupported(event) ==
    \/ event.ev \in {"Start", "End"} /\ event.tag \in UnsupportedTags
    \/ event.ev \in {"FootnoteReference", "TaskListMarker", "InlineMath",
                     "DisplayMath"}

\* C3: the builder never aborts at a token of an unsupported construct
\* (table, footnote, definition list, HTML block, math, task-list marker,
\* link): it skips the token and goes on with the next.
C3_UnsupportedSkipped ==
    pc = "aborted" => (AtEnd \/ ~IsUnsupported(events[pos]))

DroppedTags ==
    {"Table", "DefinitionList", "FootnoteDefinition", "MetadataBlock", "Link"}
Chars(text) == {text[i] : i \in 1..Len(text)}
RECURSIVE TextChars(_, _, _)
\* the characters of the text, code and break tokens of `evs` that lie inside
\* (inside = TRUE) or outside a construct of DroppedTags, `depth` of them
\* being open
TextChars(evs, depth, inside) ==
    IF evs = <<>> THEN {}
    ELSE LET e == Head(evs)
             opens == e.ev = "Start" /\ e.tag \in DroppedTags
             closes == e.ev = "End" /\ e.tag \in DroppedTags
             here == CASE e.ev \in {"Text", "Code", "Html"} -> Chars(e.text)
                       [] e.ev = "SoftBreak" -> {" "}
                       [] e.ev = "HardBreak" -> {"\n"}
                       [] OTHER -> {}
         IN (IF (depth > 0) = inside THEN here ELSE {})
              \cup TextChars(Tail(evs),
                             IF opens THEN depth + 1
                             ELSE IF closes THEN depth - 1 ELSE depth,
                             inside)

C5_ImageFailureGraceful ==
    /\ panic # ImageOpenPanic
    /\ (pc = "ready" /\ ~dirty) =>
          \A data \in BlocksOf(markdown_layout) :
              /\ (data.kind = "Image" /\ ImageOpen(data.uri) = None) =>
                    (data.image = None /\ Height(data) = 0)
              /\ data.kind \in {"Paragraph", "Header"} =>
                    data.text_layout.max_width # None

IsSuffix(p, q) ==
    Len(p) <= Len(q) /\ SubSeq(q, Len(q) - Len(p) + 1, Len(q)) = p
\* the texts of the code blocks among the first n events
CodeTexts(n) ==
    {events[i].text : i \in {j \in 2..n : /\ events[j].ev = "Text"
                                           /\ events[j - 1] = Start("CodeBlock")}}

\* C6: a code block is built without aborting and yields a CodeBlock block
\* owning the code's text; the code text is not appended to the pending
\* paragraph text of the enclosing scope.
C6_CodeBlockBuilt ==
    /\ pc = "aborted" =>
          (AtEnd \/ ~(events[pos].ev \in {"Start", "End"}
                        /\ events[pos].tag = "CodeBlock"))
    /\ \A i \in 1..Len(stack) :
          stack[i].fn = "process_events" =>
              \A code \in CodeTexts(pos - 1) : ~IsSuffix(code, stack[i].text)
    /\ pc = "ready" =>
          \A code \in CodeTexts(Len(events)) :
              \E data \in BlocksOf(markdown_layout) :
                  data.kind = "CodeBlock" /\ data.text = code

\* the root blocks a paint's draw calls name
PaintedRoots ==
    {scene[i].path[1] : i \in {j \in 1..Len(scene) : scene[j].op = "paint"}}

\* C7: painting a flow whose visible slice holds a CodeBlock or a Rule does
\* not abort: that block draws nothing and the other visible blocks of the
\* slice are painted.
C7_PaintStubsDrawNothing ==
    scene # <<>> =>
        /\ pc = "ready"
        /\ PaintedRoots =
              {i \in 1..Len(markdown_layout.flow) :
                  \E k \in 1..Len(get_visible_parts(markdown_layout, scroll.y,
                                                    size.height)) :
                      get_visible_parts(markdown_layout, scroll.y,
                                        size.height)[k] = i}
        /\ \A i \in 1..Len(scene) :
              scene[i].op # "paint" =>
                  ~(markdown_layout.flow[scene[i].path[1]].data.kind
                        \in {"CodeBlock", "HorizontalLine"})

\* C8: the layout callback runs the measurement pass iff the dirty flag is
\* set or the offered width differs from the recorded one; after it the
\* dirty flag is false and the recorded width is the offered width; a pass
\* that is not run leaves the document as it was; before the first callback
\* the dirty flag is set, so the first callback measures.
C8_MeasureIffDirtyOrWidthChanged ==
    /\ [](pc = "ready" /\ size.width = 0 => dirty)
    /\ [][\A width \in Widths :
            (MarkdowWidget_layout(width) /\ pc' = "ready") =>
                /\ measured' = (dirty \/ max_advance # width)
                /\ ~dirty'
                /\ max_advance' = width
                /\ ~measured' => markdown_layout' = markdown_layout]_vars

\* a callback at the recorded width has measured nothing
C8_Witness ==
    pc = "ready" /\ ~dirty /\ ~measured /\ max_advance = MaxWidth
        /\ Len(markdown_layout.flow) > 0

\* C9: a measurement pass run again at the same width over unchanged
\* content changes nothing: heights, list indentations, marker layouts and
\* the offsets of every flow are those of the first pass.
C9_LayoutIdempotent ==
    pc = "ready" =>
        \A width \in Widths :
            LET once == apply_to_all(markdown_layout, width) IN
            once.ok => apply_to_all(once.flow, width) = once

\* a measured document with a numbered list of two items after a paragraph
C9_Witness ==
    /\ pc = "ready" /\ measured /\ ~dirty
    /\ Len(markdown_layout.flow) = 2
    /\ markdown_layout.flow[1].data.kind = "Paragraph"
    /\ markdown_layout.flow[2].data.kind = "List"
    /\ markdown_layout.flow[2].data.list.marker.kind = "Numbers"
    /\ Len(markdown_layout.flow[2].data.list.marker.layouted) = 2

\* the height a block has by its kind: Paragraph shaped height + top
\* margin, Image decoded height or 0, List the sum of its item flows'
\* heights, Indented its child flow's height
KindHeight(data) ==
    CASE data.kind = "Paragraph" ->
            data.text_layout.lines * data.text_layout.line_height
                + data.top_margin
      [] data.kind = "Image" ->
            IF Len(data.image) = 0 THEN 0 ELSE data.image[1].height
      [] data.kind = "List" ->
            LET items == data.list.list
                sum[k \in 0..Len(items)] ==
                    IF k = 0 THEN 0 ELSE sum[k - 1] + items[k].height
            IN sum[Len(items)]
      [] data.kind = "Indented" -> data.flow.height
      [] data.kind = "HorizontalLine" -> data.height
      [] data.kind \in {"Header", "CodeBlock"} ->
            data.text_layout.lines * data.text_layout.line_height

\* C10: after a completed layout pass, in the root flow and in every nested
\* flow, offset[0] = 0, offset[i+1] = offset[i] + height[i] for the blocks'
\* current heights, the offsets do not decrease and the flow's height is
\* the terminal offset.
C10_OffsetsChain ==
    (pc = "ready" /\ ~dirty) =>
        \A f \in FlowsOf(markdown_layout) :
            LET n == Len(f.flow) IN
            /\ n > 0 => f.flow[1].offset = 0
            /\ \A i \in 1..(n - 1) :
                  /\ f.flow[i + 1].offset =
                        f.flow[i].offset + KindHeight(f.flow[i].data)
                  /\ f.flow[i].offset <= f.flow[i + 1].offset
            /\ f.height = IF n = 0 THEN 0
                          ELSE f.flow[n].offset + KindHeight(f.flow[n].data)

\* a measured document whose first block is a list of two items, each with
\* a height, followed by another block
C10_Witness ==
    /\ pc = "ready" /\ ~dirty
    /\ Len(markdown_layout.flow) = 2
    /\ markdown_layout.flow[1].data.kind = "List"
    /\ Len(markdown_layout.flow[1].data.list.list) = 2
    /\ \A k \in 1..2 : markdown_layout.flow[1].data.list.list[k].height > 0
    /\ markdown_layout.flow[2].offset > 0

\* the root blocks whose span [offset, offset + height) shares a point with
\* the viewport [top, top + height)
Intersecting(top, height) ==
    {i \in 1..Len(markdown_layout.flow) :
        LET item == markdown_layout.flow[i] IN
        /\ item.offset < top + height
        /\ top < item.offset + KindHeight(item.data)}

\* C11: a paint at scroll position s with viewport height h invokes paint
\* on exactly the root blocks whose span [offset, offset + height)
\* intersects [s, s + h): none of them is skipped, no other is painted.
C11_PaintsExactlyTheVisible ==
    scene # <<>> => PaintedRoots = Intersecting(scroll.y, size.height)

RECURSIVE MeasuredAt(_, _)
\* every Paragraph and Header block of `flow`, at every depth, holds a
\* layout broken at `width` less the indentations of the List blocks and
\* the decoration widths of the Indented blocks around it
MeasuredAt(flow, width) ==
    \A i \in 1..Len(flow.flow) :
        LET data == flow.flow[i].data IN
        CASE data.kind \in {"Paragraph", "Header"} ->
                /\ data.text_layout.max_width = Some(width)
                /\ data.text_layout.len = Len(data.text)
          [] data.kind = "Indented" ->
                MeasuredAt(data.flow,
                           width - markdown_indentation_decoration_width)
          [] data.kind = "List" ->
                \A k \in 1..Len(data.list.list) :
                    MeasuredAt(data.list.list[k], width - data.list.indentation)
          [] OTHER -> TRUE

\* C12: after a layout pass at width w every Paragraph and Heading block,
\* at any depth, holds the layout of that pass, measured at w less the
\* indentations of the enclosing List blocks and the decoration widths of
\* the enclosing Indented blocks; none keeps a layout of an earlier width.
C12_NestedTextRemeasured ==
    (pc = "ready" /\ ~dirty) => MeasuredAt(markdown_layout, max_advance)

\* a measured document with a paragraph in a list in a list, and one in a
\* blockquote
C12_Witness ==
    /\ pc = "ready" /\ ~dirty /\ measured /\ max_advance = MaxWidth
    /\ \E i \in 1..Len(markdown_layout.flow) :
          LET outer == markdown_layout.flow[i].data IN
          /\ outer.kind = "List"
          /\ \E j \in 1..Len(outer.list.list[1].flow) :
                LET inner == outer.list.list[1].flow[j].data IN
                /\ inner.kind = "List"
                /\ inner.list.list[1].flow[1].data.kind = "Paragraph"
                /\ inner.list.list[1].flow[1].data.text_layout.max_width =
                      Some(MaxWidth - outer.list.indentation
                             - inner.list.indentation)
    /\ \E i \in 1..Len(markdown_layout.flow) :
          /\ markdown_layout.flow[i].data.kind = "Indented"
          /\ markdown_layout.flow[i].data.flow.flow[1].data.text_layout.max_width
                = Some(MaxWidth - markdown_indentation_decoration_width)

\* the shaped width of the label of item k (from 0) of a numbered list
LabelWidth(start_number, k) ==
    (Len(to_string((start_number + k) % U32Wrap)) + 1) * Advance

\* the indentation a list should have after a layout pass
ExpectedIndentation(list) ==
    IF list.marker.kind = "Symbol"
    THEN Len(list.marker.symbol) * Advance + markdown_bullet_list_indentation
            + markdown_list_after_indentation
    ELSE LET n == Len(list.list)
             widest[k \in 0..n] ==
                IF k = 0 THEN 0
                ELSE Max(widest[k - 1],
                         LabelWidth(list.marker.start_number, k - 1)
                            + markdown_numbered_list_indentation
                            + markdown_list_after_indentation)
         IN widest[n]

\* C13: after a layout pass a List's indentation is the widest shaped marker
\* plus the two theme spacings (before and after the marker): for a numbered
\* list the widest of the labels of all its items, for a bulleted list the
\* width of the one symbol, whatever the number of items.
C13_ListIndentation ==
    (pc = "ready" /\ ~dirty) =>
        \A data \in BlocksOf(markdown_layout) :
            data.kind = "List" =>
                data.list.indentation = ExpectedIndentation(data.list)

\* a measured numbered list whose last label ("10.") is wider than its
\* first ("9."), beside a bulleted list
C13_Witness ==
    /\ pc = "ready" /\ ~dirty
    /\ \E data \in BlocksOf(markdown_layout) :
          /\ data.kind = "List" /\ data.list.marker.kind = "Numbers"
          /\ Len(data.list.list) = 2
          /\ data.list.indentation >
                LabelWidth(data.list.marker.start_number, 0)
                    + markdown_numbered_list_indentation
                    + markdown_list_after_indentation
    /\ \E data \in BlocksOf(markdown_layout) :
          /\ data.kind = "List" /\ data.list.marker.kind = "Symbol"
          /\ data.list.indentation > 0

RECURSIVE ContentOf(_)
\* the content of a flow: its blocks in order, each with its kind and what
\* the builder gave it, without cached layouts, offsets, heights,
\* indentations, marker layouts and image handles
ContentOf(flow) ==
    [i \in 1..Len(flow.flow) |->
        LET data == flow.flow[i].data IN
        CASE data.kind = "Paragraph" ->
                <<data.kind, data.text, data.markers, data.top_margin>>
          [] data.kind = "Header" ->
                <<data.kind, data.text, data.markers, data.level>>
          [] data.kind = "Image" -> <<data.kind, data.uri, data.title>>
          [] data.kind = "Indented" -> <<data.kind, ContentOf(data.flow)>>
          [] data.kind = "List" ->
                <<data.kind, data.list.marker.kind,
                  IF data.list.marker.kind = "Numbers"
                  THEN <<data.list.marker.start_number>>
                  ELSE data.list.marker.symbol,
                  [k \in 1..Len(data.list.list) |->
                      ContentOf(data.list.list[k])]>>
          [] OTHER -> <<data.kind>>]

\* C14: once the document is built, no layout, paint or pointer callback
\* changes its content: the number, order and kind of the blocks of every
\* flow, each block's text, markers and heading level, each image's URI and
\* title, each list's marker kind and start number stay as built.
C14_ContentFrozen ==
    [][pc = "ready" => ContentOf(markdown_layout') = ContentOf(markdown_layout)]_vars

\* a document with a marked paragraph and a numbered list that has been
\* measured, scrolled and painted
C14_Witness ==
    /\ pc = "ready" /\ measured /\ scroll.y # 0 /\ scene # <<>>
    /\ Len(markdown_layout.flow) = 2
    /\ markdown_layout.flow[1].data.kind = "Paragraph"
    /\ markdown_layout.flow[1].data.markers # <<>>
    /\ markdown_layout.flow[2].data.kind = "List"
    /\ markdown_layout.flow[2].data.list.marker.kind = "Numbers"
    /\ markdown_layout.flow[2].data.list.marker.layouted # <<>>

\* C15: paint and mouse-wheel callbacks run no measurement: a paint leaves
\* the document (heights, offsets, image handles), the dirty flag, the
\* recorded width and the scroll position as they were; a mouse-wheel event
\* changes the scroll position only, and asks for a paint.
C15_PaintAndWheelMeasureNothing ==
    [][/\ MarkdowWidget_paint =>
            UNCHANGED <<markdown_layout, dirty, max_advance, scroll, size,
                        measured>>
       /\ \A delta \in Deltas :
            MarkdowWidget_on_pointer_event(delta) =>
                /\ UNCHANGED <<markdown_layout, dirty, max_advance, size,
                               measured>>
                /\ pc' = "ready"]_vars

\* a painted document, scrolled by the wheel, with a paragraph of several
\* lines
C15_Witness ==
    /\ pc = "ready" /\ ~dirty /\ scroll.y > 0 /\ scene # <<>>
    /\ \E i \in 1..Len(markdown_layout.flow) :
          /\ markdown_layout.flow[i].data.kind = "Paragraph"
          /\ markdown_layout.flow[i].data.text_layout.lines > 1

ScopeTags == {"List", "Item", "BlockQuote"}

RECURSIVE OpenScopes(_)
\* the lists, items and blockquotes that the first n events have opened and
\* not closed, outermost first
OpenScopes(n) ==
    IF n = 0 THEN <<>>
    ELSE LET e == events[n]
             before == OpenScopes(n - 1)
         IN IF e.ev = "Start" /\ e.tag \in ScopeTags THEN Append(before, e.tag)
            ELSE IF e.ev = "End" /\ e.tag \in ScopeTags
            THEN SubSeq(before, 1, Len(before) - 1)
            ELSE before

\* the scope a call in progress is processing, "" for none of ScopeTags
ScopeOfFrame(frame) ==
    CASE frame.fn = "process_list_events" -> "List"
      [] frame.fn = "process_events" /\ frame.untill = Some(End("Item")) -> "Item"
      [] frame.fn = "process_events" /\ frame.untill = Some(End("BlockQuote")) ->
            "BlockQuote"
      [] OTHER -> ""

RECURSIVE ScopesOfFrames(_)
ScopesOfFrames(frames) ==
    IF frames = <<>> THEN <<>>
    ELSE (IF ScopeOfFrame(Head(frames)) = "" THEN <<>>
          ELSE <<ScopeOfFrame(Head(frames))>>)
            \o ScopesOfFrames(Tail(frames))

RECURSIVE ItemCounts(_)
\* over the first n events: the number of item-start tokens seen so far
\* under each open list, and those of the closed lists in closing order
ItemCounts(n) ==
    IF n = 0 THEN [open |-> <<>>, closed |-> <<>>]
    ELSE LET e == events[n]
             before == ItemCounts(n - 1)
             depth == Len(before.open)
         IN IF e.ev = "Start" /\ e.tag = "List"
            THEN [before EXCEPT !.open = Append(@, 0)]
            ELSE IF e.ev = "Start" /\ e.tag = "Item" /\ depth > 0
            THEN [before EXCEPT !.open[depth] = @ + 1]
            ELSE IF e.ev = "End" /\ e.tag = "List" /\ depth > 0
            THEN [open |-> SubSeq(before.open, 1, depth - 1),
                  closed |-> Append(before.closed, before.open[depth])]
            ELSE before

RECURSIVE ListSizes(_)
RECURSIVE ListSizesOfFlows(_)
\* the number of child flows of every List block of a flow, inner lists
\* before the list that holds them
ListSizes(datas) ==
    IF datas = <<>> THEN <<>>
    ELSE LET data == Head(datas).data
             here == CASE data.kind = "Indented" -> ListSizes(data.flow.flow)
                       [] data.kind = "List" ->
                            Append(ListSizesOfFlows(data.list.list),
                                   Len(data.list.list))
                       [] OTHER -> <<>>
         IN here \o ListSizes(Tail(datas))
ListSizesOfFlows(flows) ==
    IF flows = <<>> THEN <<>>
    ELSE ListSizes(Head(flows).flow) \o ListSizesOfFlows(Tail(flows))

\* C16: over the one forward-only cursor, the calls in progress are at all
\* times the scopes (list, item, blockquote) open at the cursor, in nesting
\* order: a nested call returns exactly at its own end token, an inner
\* scope's end is consumed by the inner call, what follows a scope is
\* processed by the enclosing one; the top-level call returns at the end of
\* the stream, and every List block has one child flow per item-start token
\* directly under its list-start token.
C16_ScopesMatchTerminators ==
    /\ pc = "parsing" => ScopesOfFrames(stack) = OpenScopes(pos - 1)
    /\ pc = "ready" =>
          /\ pos = Len(events) + 1
          /\ ListSizes(markdown_layout.flow) = ItemCounts(Len(events)).closed

\* an inner list has just returned into the item of the outer list
C16_Witness ==
    /\ pc = "parsing" /\ pos > 1
    /\ events[pos - 1].ev = "End" /\ events[pos - 1].tag = "List"
    /\ ScopesOfFrames(stack) = <<"List", "Item">>
    /\ Top.fn = "process_events"
    /\ Len(Top.res.flow) = 1
    /\ Top.res.flow[1].data.kind = "List"

\* C17: when a paragraph end token has been processed the pending text and
\* the pending markers of the scope are empty, whether the paragraph was
\* emitted or skipped for its empty trimmed text, so that the next
\* paragraph holds nothing of an earlier one.
C17_PendingClearedAtParagraphEnd ==
    (pc = "parsing" /\ pos > 1 /\ events[pos - 1] = End("Paragraph")
        /\ Top.fn = "process_events") =>
            /\ Top.text = <<>>
            /\ Top.marker_state.markers = <<>>

\* C18: spans of one kind nested in each other are resolved as a stack: for
\* the events of a Strong span over "abc" with a Strong span over "b"
\* inside it, the inner end token emits Bold [1,2) and the outer end token
\* Bold [0,3), from the offset recorded at the outer start token.
C18_NestedSpansStack ==
    (pc = "ready" /\ IsPrefix(NestedStrong, events)) =>
        markdown_layout.flow[1].data.markers =
            <<TextMarker(1, 2, "Bold"), TextMarker(0, 3, "Bold")>>

\* C19: in a paragraph scope an inline-code token and a raw inline-HTML
\* token each append their text to the pending text and emit one closed
\* InlineCode marker [n, n + len), n being the length of the pending text
\* before the token; a hard break appends one newline, a soft break one
\* space.
C19_InlineTokens ==
    (pc = "parsing" /\ pos > 1 /\ Top.fn = "process_events") =>
        LET event == events[pos - 1]
            text == Top.text
            markers == Top.marker_state.markers
        IN /\ event.ev \in {"Code", "InlineHtml"} =>
                /\ IsSuffix(event.text, text)
                /\ markers # <<>>
                /\ markers[Len(markers)] =
                      TextMarker(Len(text) - Len(event.text), Len(text),
                                 "InlineCode")
           /\ event.ev = "HardBreak" => IsSuffix(<<"\n">>, text)
           /\ event.ev = "SoftBreak" => IsSuffix(<<" ">>, text)

\* C20: a heading collects its inline content as a paragraph does: for a
\* heading followed by a paragraph with the same inline tokens (text, spans,
\* inline code, hard and soft breaks) the Heading block has the text and
\* the markers of the Paragraph block, and the level of its start token.
C20_HeadingCollectsAsParagraph ==
    LET n == Len(events) \div 2 IN
    (/\ pc = "ready"
     /\ n >= 3 /\ Len(events) = 2 * n
     /\ events[1].ev = "Start" /\ events[1].tag = "Heading"
     /\ events[n].ev = "End" /\ events[n].tag = "Heading"
     /\ events[n + 1] = Start("Paragraph")
     /\ SubSeq(events, 2, n - 1) = SubSeq(events, n + 2, 2 * n - 1)) =>
        /\ Len(markdown_layout.flow) = 2
        /\ markdown_layout.flow[1].data.kind = "Header"
        /\ markdown_layout.flow[1].data.level = events[1].num[1]
        /\ markdown_layout.flow[2].data.kind = "Paragraph"
        /\ markdown_layout.flow[1].data.text = markdown_layout.flow[2].data.text
        /\ markdown_layout.flow[1].data.markers
              = markdown_layout.flow[2].data.markers

RECURSIVE ImagesOf(_)
RECURSIVE ImagesOfFlows(_)
\* the Image blocks of a flow at every depth, in order
ImagesOf(datas) ==
    IF datas = <<>> THEN <<>>
    ELSE LET data == Head(datas).data
             here == CASE data.kind = "Image" -> <<data>>
                       [] data.kind = "Indented" -> ImagesOf(data.flow.flow)
                       [] data.kind = "List" -> ImagesOfFlows(data.list.list)
                       [] OTHER -> <<>>
         IN here \o ImagesOf(Tail(datas))
ImagesOfFlows(flows) ==
    IF flows = <<>> THEN <<>>
    ELSE ImagesOf(Head(flows).flow) \o ImagesOfFlows(Tail(flows))

RECURSIVE ImageStarts(_)
\* the image start tokens among the first n events, in order
ImageStarts(n) ==
    IF n = 0 THEN <<>>
    ELSE ImageStarts(n - 1)
            \o (IF events[n].ev = "Start" /\ events[n].tag = "Image"
                THEN <<events[n]>> ELSE <<>>)

RECURSIVE AltChars(_, _, _)
\* the characters of the text tokens of `evs` inside (inside = TRUE) or
\* outside the alt-text scope of an image, `open` telling whether one is open
AltChars(evs, open, inside) ==
    IF evs = <<>> THEN {}
    ELSE LET e == Head(evs)
             here == IF e.ev \in {"Text", "Code", "Html"} THEN Chars(e.text)
                     ELSE {}
         IN (IF open = inside THEN here ELSE {})
              \cup AltChars(Tail(evs),
                            IF e.ev = "Start" /\ e.tag = "Image" THEN TRUE
                            ELSE IF e = End("Image") THEN FALSE ELSE open,
                            inside)

\* C22: every image start token, wherever it stands (top level, paragraph,
\* list item, blockquote, heading), yields one Image block with the token's
\* URI and title and no decoded handle, and the tokens of its alt text add
\* no character to the text of any block.
C22_OneImagePerStart ==
    pc = "ready" =>
        LET images == ImagesOf(markdown_layout.flow)
            starts == ImageStarts(Len(events))
        IN /\ Len(images) = Len(starts)
           /\ \A i \in 1..Len(images) :
                 /\ i <= Len(starts)
                 /\ images[i].uri = starts[i].text[1]
                 /\ images[i].title = starts[i].text[2]
                 /\ dirty => images[i].image = None
           /\ \A data \in BlocksOf(markdown_layout) :
                 data.kind \in {"Paragraph", "Header"} =>
                     Chars(data.text) \cap
                         (AltChars(events, FALSE, TRUE)
                            \ AltChars(events, FALSE, FALSE)) = {}

\* C23: a file is decoded only while the block's handle is absent: once a
\* layout pass has given an Image block its handle, no later pass, at any
\* width, decodes again, replaces or clears it, and the block's height
\* stays the decoded height, whatever has become of the file.
C23_DecodedOnce ==
    [][pc = "ready" =>
          LET before == ImagesOf(markdown_layout.flow)
              after == ImagesOf(markdown_layout'.flow)
          IN /\ \A i \in 1..Len(before) :
                   before[i].image # None =>
                       /\ i <= Len(after)
                       /\ after[i].image = before[i].image
                       /\ Height(after[i]) = before[i].image[1].height
             /\ (\A i \in 1..Len(before) : before[i].image # None) =>
                   panic' # ImageOpenPanic]_vars

\* the document holds a decoded image whose file is gone, and has been
\* measured again, at the wider width, since the file went
C23_Witness ==
    /\ pc = "ready" /\ ~dirty /\ measured /\ max_advance = MaxWidth
    /\ files = {}
    /\ \E data \in BlocksOf(markdown_layout) :
          data.kind = "Image" /\ data.image # None /\ Height(data) = 5

\* the paths of the blocks the last paint invoked paint on
PaintedPaths ==
    {scene[i].path : i \in {j \in 1..Len(scene) : scene[j].op = "paint"}}

\* the document position of block j of item k of the root List block i
ItemBlockTop(i, k, j) ==
    LET list == markdown_layout.flow[i].data.list.list
    IN markdown_layout.flow[i].offset
          + SumHeights(SubSeq(list, 1, k - 1))
          + list[k].flow[j].offset

\* C24: in the paint of a List every item's flow is asked for its visible
\* blocks in the item's own coordinates, so that of every item, not only
\* the first, exactly the blocks whose span in the document intersects the
\* viewport are painted.
C24_ListItemsClipped ==
    (pc = "ready" /\ scene # <<>>) =>
        \A i \in 1..Len(markdown_layout.flow) :
            (markdown_layout.flow[i].data.kind = "List" /\ <<i>> \in PaintedPaths) =>
                LET list == markdown_layout.flow[i].data.list.list IN
                \A k \in 1..Len(list) :
                    \A j \in 1..Len(list[k].flow) :
                        <<i, k, j>> \in PaintedPaths <=>
                            /\ ItemBlockTop(i, k, j) < scroll.y + size.height
                            /\ scroll.y < ItemBlockTop(i, k, j)
                                            + KindHeight(list[k].flow[j].data)

RECURSIVE DocumentTop(_, _, _)
\* the document position of the block at `path` under `flow`, whose own
\* blocks start at `base`: the offsets of the block and of the blocks around
\* it, and the heights of the list items before its item
DocumentTop(flow, path, base) ==
    LET item == flow.flow[path[1]]
        top == base + item.offset
    IN IF Len(path) = 1 THEN top
       ELSE IF item.data.kind = "Indented"
       THEN DocumentTop(item.data.flow, Tail(path), top)
       ELSE DocumentTop(item.data.list.list[path[2]], Tail(Tail(path)),
                        top + SumHeights(SubSeq(item.data.list.list, 1,
                                                path[2] - 1)))

RECURSIVE BlockAt(_, _)
\* the block at `path` under `flow`
BlockAt(flow, path) ==
    LET data == flow.flow[path[1]].data
    IN IF Len(path) = 1 THEN data
       ELSE IF data.kind = "Indented" THEN BlockAt(data.flow, Tail(path))
       ELSE BlockAt(data.list.list[path[2]], Tail(Tail(path)))

\* C25: every painted block is drawn at the vertical position Y - scroll.y,
\* Y being its position in the document; the scroll offset is subtracted
\* once, at the root flow, nested flows add their own offsets only, and the
\* items of a List advance by their heights, in all by the List's height.
C25_DrawnAtDocumentPosition ==
    \A i \in 1..Len(scene) :
        /\ scene[i].op = "paint" =>
              scene[i].y = DocumentTop(markdown_layout, scene[i].path, 0)
                              - scroll.y
        /\ scene[i].op = "draw_marker" =>
              LET n == Len(scene[i].path)
                  list_path == SubSeq(scene[i].path, 1, n - 1)
                  k == scene[i].path[n]
                  block == BlockAt(markdown_layout, list_path)
              IN /\ scene[i].y =
                        DocumentTop(markdown_layout, list_path, 0) - scroll.y
                           + SumHeights(SubSeq(block.list.list, 1, k - 1))
                 /\ KindHeight(block) = SumHeights(block.list.list)

\* a paint, scrolled down, that has drawn a block of the second item of a
\* list
C25_Witness ==
    /\ pc = "ready" /\ scroll.y > 0
    /\ \E i \in 1..Len(scene) :
          /\ scene[i].op = "paint" /\ Len(scene[i].path) = 3
          /\ scene[i].path[2] = 2
          /\ scene[i].y # 0

\* C26: after a layout pass the marker of every item k of a numbered list is
\* painted right-aligned against the indentation: its left edge at list
\* origin + indentation - width_k - after-spacing, not left of list origin
\* + before-spacing, its right edge at list origin + indentation -
\* after-spacing, left of the item's content at list origin + indentation.
C26_NumberedMarkerAligned ==
    \A i \in 1..Len(scene) :
        LET n == Len(scene[i].path)
            list_path == SubSeq(scene[i].path, 1, n - 1)
            k == scene[i].path[n]
        IN (scene[i].op = "draw_marker"
              /\ BlockAt(markdown_layout, list_path).list.marker.kind = "Numbers") =>
            LET list == BlockAt(markdown_layout, list_path).list
                width == LabelWidth(list.marker.start_number, k - 1)
                origin == scene[CHOOSE j \in 1..Len(scene) :
                                    scene[j].op = "paint"
                                      /\ scene[j].path = list_path].x
            IN /\ scene[i].x = origin + list.indentation - width
                                  - markdown_list_after_indentation
               /\ scene[i].x >= origin + markdown_numbered_list_indentation
               /\ scene[i].x + width <= origin + list.indentation
               /\ \A j \in 1..Len(scene) :
                     (scene[j].op = "paint" /\ Len(scene[j].path) = n + 1
                        /\ SubSeq(scene[j].path, 1, n) = scene[i].path) =>
                            scene[j].x = origin + list.indentation

\* a paint has drawn the markers "9." and "10." of a numbered list, the
\* first of them further right than the second
C26_Witness ==
    /\ pc = "ready"
    /\ \E i, j \in 1..Len(scene) :
          /\ scene[i].op = "draw_marker" /\ scene[j].op = "draw_marker"
          /\ Len(scene[i].path) = 2 /\ Len(scene[j].path) = 2
          /\ scene[i].path[1] = scene[j].path[1]
          /\ scene[i].path[2] = 1 /\ scene[j].path[2] = 2
          /\ BlockAt(markdown_layout, <<scene[i].path[1]>>).list.marker.kind
                = "Numbers"
          /\ scene[i].x > scene[j].x

RECURSIVE ListFirsts(_)
\* over the first n events: the numbers of the start tokens of the open
\* lists, and those of the closed lists in closing order
ListFirsts(n) ==
    IF n = 0 THEN [open |-> <<>>, closed |-> <<>>]
    ELSE LET e == events[n]
             before == ListFirsts(n - 1)
             depth == Len(before.open)
         IN IF e.ev = "Start" /\ e.tag = "List"
            THEN [before EXCEPT !.open = Append(@, e.num)]
            ELSE IF e.ev = "End" /\ e.tag = "List" /\ depth > 0
            THEN [open |-> SubSeq(before.open, 1, depth - 1),
                  closed |-> Append(before.closed, before.open[depth])]
            ELSE before

RECURSIVE ListsOf(_)
RECURSIVE ListsOfFlows(_)
\* the List blocks of a flow at every depth, inner lists before the list
\* that holds them
ListsOf(datas) ==
    IF datas = <<>> THEN <<>>
    ELSE LET data == Head(datas).data
             here == CASE data.kind = "Indented" -> ListsOf(data.flow.flow)
                       [] data.kind = "List" ->
                            Append(ListsOfFlows(data.list.list), data.list)
                       [] OTHER -> <<>>
         IN here \o ListsOf(Tail(datas))
ListsOfFlows(flows) ==
    IF flows = <<>> THEN <<>>
    ELSE ListsOf(Head(flows).flow) \o ListsOfFlows(Tail(flows))

C28_MarkerCacheMatchesItems ==
    /\ (pc = "ready" /\ ~dirty) =>
          \A data \in BlocksOf(markdown_layout) :
              (data.kind = "List" /\ data.list.marker.kind = "Numbers") =>
                  Len(data.list.marker.layouted) = Len(data.list.list)
    /\ \A i \in 1..Len(scene) :
          LET n == Len(scene[i].path)
              block == BlockAt(markdown_layout, SubSeq(scene[i].path, 1, n - 1))
          IN (scene[i].op = "draw_marker" /\ block.list.marker.kind = "Numbers") =>
                scene[i].path[n] <= Len(block.list.marker.layouted)

\* a numbered list of two items measured twice (before and after the
\* image's file went) and painted
C28_Witness ==
    /\ pc = "ready" /\ ~dirty /\ measured /\ max_advance = MaxWidth
    /\ files = {}
    /\ \E data \in BlocksOf(markdown_layout) :
          /\ data.kind = "List" /\ data.list.marker.kind = "Numbers"
          /\ Len(data.list.list) = 2
    /\ \E i \in 1..Len(scene) : scene[i].op = "draw_marker"

\* C29: after every mouse-wheel event, with document height H,
\* viewport height V and baseline offset b, scroll.x = 0 and
\* 0 <= scroll.y <= max(0, H - V + b): scroll.y is never negative, also
\* when the document is shorter than the viewport.
C29_ScrollWithinDocument ==
    [][\A delta \in Deltas :
          MarkdowWidget_on_pointer_event(delta) =>
              /\ scroll'.x = 0
              /\ 0 <= scroll'.y
              /\ scroll'.y <= Max(0, markdown_layout.height - size.height
                                       + BaselineOffset)]_vars

\* C30: the blocks of a flow stand in the order in which their content
\* began in the stream: in the item of a tight list that holds the text "o"
\* and then a nested list, the Paragraph of "o", though flushed at the end
\* of the item's scope, stands before the List block.
C30_BlocksInStreamOrder ==
    (pc = "ready" /\ IsPrefix(TightNestedList, events)) =>
        LET item == markdown_layout.flow[1].data.list.list[1].flow
        IN /\ Len(item) = 2
           /\ item[1].data.kind = "Paragraph"
           /\ item[1].data.text = <<"o">>
           /\ item[2].data.kind = "List"

====
